---------------------------- MODULE Spec2Model ----------------------------
(***************************************************************************)
(* A model of the three tools of src/agent.ts (lines 38-315):              *)
(*   fetch_and_parse_html, list_coder_jobs, get_coder_job_details.         *)
(*                                                                         *)
(* Every tool is an async handler: it issues one fetch, is suspended at    *)
(* the await, and is resumed with the response (or with the rejection of   *)
(* the fetch).  An invocation is therefore two steps: the call, up to the  *)
(* await, and the resumption, which runs the rest of the handler.          *)
(*                                                                         *)
(* Text of the DOM (titles, anchors, body) is a sequence of characters.    *)
(* Parsed JSON is a tagged tree (see the JSON section).  A page is the     *)
(* record of what cheerio and the handler's regular expressions find in    *)
(* the HTML: the elements the selectors match and the groups the regular   *)
(* expressions capture.                                                    *)
(*                                                                         *)
(* Spec, SpecHtml, SpecList and SpecDetails follow one invocation;         *)
(* SpecConcurrent interleaves several at their awaits; SpecDoc is the      *)
(* document reader of section 4.5 of the specification.                    *)
(***************************************************************************)
EXTENDS Integers, Sequences, FiniteSets, TLC

VARIABLES
    tool,       \* the tool of the current invocation, "none" before the first
    pc,         \* "idle" | "awaiting" (suspended at await fetch) | "returned" | "threw"
    input,      \* the (schema-validated) argument object of the invocation
    res,        \* the Response the fetch resolved with (NoRes before that)
    bodyRead,   \* res.text() has been called in this invocation
    fetches,    \* number of fetch() calls issued by this invocation
    out,        \* the object the handler returned
    err,        \* the error the handler threw
    running,    \* concurrent invocations: id -> the locals of its handler
    requests    \* the requests the concurrent invocations issued, in order

vars == <<tool, pc, input, res, bodyRead, fetches, out, err, running, requests>>

-----------------------------------------------------------------------------
(* Bounds of the model *)

MaxBody == 4        \* longest body text, in characters
MaxLimit == 3       \* largest maxContentChars argument tried
MaxTitles == 2      \* most <title> elements in a page
MaxAnchors == 2     \* most anchors in a short page
MaxOver == 2        \* a long page has up to LinksCap + MaxOver anchors with an href
MaxPostings == 2    \* most postings in a job board payload
MaxJobs == 2        \* most job records in the payload of a job page
MaxInvocations == 2 \* most invocations in flight at a time
MaxItems == 2       \* most items of an array in a payload of another shape

(* Program constants *)

DefaultMaxContentChars == 10000
LinksCap == 500

-----------------------------------------------------------------------------
(* Characters and strings of the DOM *)

Chars == {"a", " ", "\n"}

IsSpace(c) == c \in {" ", "\n"}

Min(a, b) == IF a <= b THEN a ELSE b

StringsUpTo(n) == UNION {[1..k -> Chars] : k \in 0..n}

\* String.prototype.slice(0, n), n >= 0
Slice0(s, n) == SubSeq(s, 1, Min(n, Len(s)))

RECURSIVE TrimStart(_)
TrimStart(s) ==
    IF s # <<>> /\ IsSpace(Head(s)) THEN TrimStart(Tail(s)) ELSE s

RECURSIVE TrimEnd(_)
TrimEnd(s) ==
    IF s # <<>> /\ IsSpace(s[Len(s)]) THEN TrimEnd(SubSeq(s, 1, Len(s) - 1)) ELSE s

\* String.prototype.trim()
Trim(s) == TrimEnd(TrimStart(s))

\* s.replace(/\s+/g, " "): every maximal run of whitespace becomes one space
RECURSIVE CollapseWs(_)
CollapseWs(s) ==
    IF s = <<>> THEN <<>>
    ELSE IF IsSpace(Head(s))
         THEN <<" ">> \o CollapseWs(TrimStart(s))
         ELSE <<Head(s)>> \o CollapseWs(Tail(s))

-----------------------------------------------------------------------------
(* The DOM as cheerio's selectors see it *)

\* An attribute value as .attr() returns it: undefined (def = FALSE) or a string
NoAttr == [def |-> FALSE, c |-> <<>>]

Attr(s) == [def |-> TRUE, c |-> s]

\* $(sel).attr(name): the attribute of the first matched element, undefined
\* when nothing matches.  els is the sequence of that attribute over the
\* matched elements, in document order.
FirstAttr(els) == IF els = <<>> THEN NoAttr ELSE Head(els)

\* $(sel).first().text(): the text of the first matched element, "" when
\* nothing matches
FirstText(els) == IF els = <<>> THEN <<>> ELSE Head(els)

\* a || b on strings-or-undefined: a when a is a non-empty string, else b
OrStr(a, b) == IF a.def /\ a.c # <<>> THEN a ELSE b

\* The page: what the selectors and regular expressions of the handlers
\* find in the HTML text.
\*   ogTitle   content attribute of each meta[property="og:title"]
\*   titleEls  text of each <title>
\*   metaDesc  content attribute of each meta[name="description"]
\*   ogDesc    content attribute of each meta[property="og:description"]
\*   h1, h2    text of each <h1>, <h2>
\*   anchors   href attribute and text of each <a href>
\*   bodyText  text of <body>
\*   appData   what /window\.__appData\s*=\s*(\{[\s\S]*?\});/ captures
\*   ldjson    what the application/ld+json script pattern captures
\*   applyHref what the "apply" anchor pattern captures
BlankDom ==
    [ogTitle |-> <<>>, titleEls |-> <<>>, metaDesc |-> <<>>, ogDesc |-> <<>>,
     h1 |-> <<>>, h2 |-> <<>>, anchors |-> <<>>, bodyText |-> <<>>]

-----------------------------------------------------------------------------
(* fetch_and_parse_html: the extraction steps *)

AllFields == {"title", "description", "headings", "links", "text"}

\* a variant of OptsExtract that always asks for the title
OptsExtractAlwaysTitle(in) ==
    (IF in.hasExtract THEN in.extract ELSE AllFields) \cup {"title"}

\* opts.extract: extract ?? all five
OptsExtract(in) == IF in.hasExtract THEN in.extract ELSE AllFields

\* opts.maxContentChars: maxContentChars ?? 10000
OptsMaxContentChars(in) ==
    IF in.hasMax THEN in.maxContentChars ELSE DefaultMaxContentChars

\* a variant of ExtractTitle that prefers the <title> element to og:title
ExtractTitleFirstElement(dom) ==
    Trim(OrStr(OrStr(Attr(FirstText(dom.titleEls)), FirstAttr(dom.ogTitle)),
               Attr(<<>>)).c)

\* out.title
ExtractTitle(dom) ==
    Trim(OrStr(OrStr(FirstAttr(dom.ogTitle), Attr(FirstText(dom.titleEls))),
               Attr(<<>>)).c)

\* out.description
ExtractDescription(dom) ==
    Trim(OrStr(OrStr(FirstAttr(dom.metaDesc), FirstAttr(dom.ogDesc)),
               Attr(<<>>)).c)

NonEmptyStr(s) == s # <<>>

\* pick(sel): the trimmed text of every matched element, empty ones dropped
Pick(els) == SelectSeq([i \in 1..Len(els) |-> Trim(els[i])], NonEmptyStr)

\* out.headings
ExtractHeadings(dom) == [h1 |-> Pick(dom.h1), h2 |-> Pick(dom.h2)]

\* An anchor's href is a number standing for a string: 0 is the empty
\* string, n > 0 a non-empty string that differs from every other number's.
HasHref(l) == l.href # 0

LinkOf(a) == [href |-> a.href, text |-> Trim(a.text)]

\* a variant of ExtractLinks that slices before it filters
ExtractLinksCapFirst(dom) ==
    SelectSeq(SubSeq([i \in 1..Len(dom.anchors) |-> LinkOf(dom.anchors[i])],
                     1, Min(LinksCap, Len(dom.anchors))),
              HasHref)

\* out.links: map, then filter((l) => l.href), then slice(0, 500)
ExtractLinks(dom) ==
    LET mapped == [i \in 1..Len(dom.anchors) |-> LinkOf(dom.anchors[i])]
        kept == SelectSeq(mapped, HasHref)
    IN  SubSeq(kept, 1, Min(LinksCap, Len(kept)))

\* a variant of ExtractText without the slice
ExtractTextNoTruncate(dom, limit) == Trim(CollapseWs(dom.bodyText))

\* out.text
ExtractText(dom, limit) ==
    LET text == Trim(CollapseWs(dom.bodyText))
    IN  IF Len(text) > limit THEN Slice0(text, limit) ELSE text

\* line 63: res.headers.get("content-type") ?? ""
ContentType(r) == IF r.contentType.present THEN r.contentType.value ELSE ""

\* The object built in lines 78-132: the three fixed keys, and one key per
\* requested field.  Its domain is the set of keys of the returned object.
HtmlResult(in, r) ==
    LET want == OptsExtract(in)
        dom == r.page.dom
    IN  [k \in {"url", "status", "contentType"} \cup want |->
            CASE k = "url" -> in.url
              [] k = "status" -> r.status
              [] k = "contentType" -> ContentType(r)
              [] k = "title" -> ExtractTitle(dom)
              [] k = "description" -> ExtractDescription(dom)
              [] k = "headings" -> ExtractHeadings(dom)
              [] k = "links" -> ExtractLinks(dom)
              [] k = "text" -> ExtractText(dom, OptsMaxContentChars(in))]

-----------------------------------------------------------------------------
(* Parsed JSON and the JavaScript operators the handlers apply to it *)

Undef == [t |-> "undefined"]

Null == [t |-> "null"]

Str(s) == [t |-> "string", s |-> s]

Num(n) == [t |-> "number", n |-> n]

Bool(b) == [t |-> "boolean", b |-> b]

\* a is the sequence of the items
Arr(a) == [t |-> "array", a |-> a]

\* m is the sequence of the members [k, v], in the order of Object.keys
Obj(m) == [t |-> "object", m |-> m]

\* An object literal with the members whose value is present
IsPresent(kv) == kv.v.t # "undefined"

ObjOf(m) == Obj(SelectSeq(m, IsPresent))

\* v == null (null or undefined)
Nullish(v) == v.t \in {"undefined", "null"}

\* Boolean(v)
Truthy(v) ==
    CASE v.t \in {"undefined", "null"} -> FALSE
      [] v.t = "string" -> v.s # ""
      [] v.t = "number" -> v.n # 0
      [] v.t = "boolean" -> v.b
      [] OTHER -> TRUE

\* typeof v === "object" for a non-null v
IsObjectType(v) == v.t \in {"object", "array"}

\* v[key] for a v that is not null or undefined: the member of an object,
\* undefined on any other value (the keys read here are never "length" or
\* an index)
Get(v, key) ==
    IF v.t = "object" /\ \E i \in 1..Len(v.m) : v.m[i].k = key
    THEN v.m[CHOOSE i \in 1..Len(v.m) : v.m[i].k = key].v
    ELSE Undef

\* v?.[key]
OptGet(v, key) == IF Nullish(v) THEN Undef ELSE Get(v, key)

\* a ?? b
Coalesce(a, b) == IF Nullish(a) THEN b ELSE a

\* a || b
Or(a, b) == IF Truthy(a) THEN a ELSE b

\* a === b on the values compared here (strings against strings)
StrictEq(a, b) == a.t = b.t /\ a.t = "string" /\ a.s = b.s

\* String(v) inside a template literal
TemplateStr(v) ==
    CASE v.t = "string" -> v.s
      [] v.t = "undefined" -> "undefined"
      [] v.t = "null" -> "null"
      [] v.t = "number" -> ToString(v.n)
      [] v.t = "boolean" -> (IF v.b THEN "true" ELSE "false")
      [] v.t = "object" -> "[object Object]"
      [] OTHER -> "[array]"

\* What a regular expression captured of a JSON text, and what JSON.parse
\* makes of it: no match; a text JSON.parse rejects; a text it parses to value
NoMatch == [m |-> "nomatch", value |-> Undef]

Unparseable == [m |-> "unparseable", value |-> Undef]

\* an empty capture, possible for the ld+json pattern only
EmptyCapture == [m |-> "empty", value |-> Undef]

JsonText(v) == [m |-> "json", value |-> v]

-----------------------------------------------------------------------------
(* Outcomes of a handler, errors *)

\* read: res.text() was called on the way to the outcome
Returned(v) == [threw |-> FALSE, value |-> v, read |-> TRUE]

\* thrown past the call of res.text()
Threw(e) == [threw |-> TRUE, error |-> e, read |-> TRUE]

\* thrown at the res.ok check, before res.text()
ThrewUnread(e) == [threw |-> TRUE, error |-> e, read |-> FALSE]

\* new Error(`${text}${status} ${statusText}`), and for fetch_and_parse_html
\* `Failed to fetch ${url}: ${status} ${statusText}`
FetchError(text, url, r) ==
    [name |-> "Error", text |-> text, url |-> url, hasStatus |-> TRUE,
     status |-> r.status, statusText |-> r.statusText]

\* A URL string, as the URL parser splits it: the origin, and the pathname
\* split at "/" (u.pathname.split("/")).  "https://h/Coder/j1" is
\* [origin |-> "https://h", split |-> <<"", "Coder", "j1">>].
Url(origin, split) == [origin |-> origin, split |-> split]

NoUrl == Url("", <<>>)

PlainError(name, text) ==
    [name |-> name, text |-> text, url |-> NoUrl, hasStatus |-> FALSE,
     status |-> 0, statusText |-> ""]

\* Response.ok
ResOk(r) == r.status >= 200 /\ r.status <= 299

-----------------------------------------------------------------------------
(* list_coder_jobs *)

sourceUrl == Url("https://jobs.ashbyhq.com", <<"", "Coder">>)

\* `${sourceUrl}/${p.id}`: the pieces of the template literal, in order
JobUrl(p) == <<sourceUrl, "/", TemplateStr(Get(p, "id"))>>

\* a variant of Compensation that ignores the flag
CompensationUnredacted(p) == Coalesce(Get(p, "compensationTierSummary"), Null)

\* lines 174-176
Compensation(p) ==
    IF Truthy(Get(p, "shouldDisplayCompensationOnJobBoard"))
    THEN Coalesce(Get(p, "compensationTierSummary"), Null)
    ELSE Null

\* The callback of postings.map, lines 164-178, for a posting p that is not
\* null
JobSummary(p) ==
    [id |-> Get(p, "id"),
     title |-> Coalesce(Get(p, "title"), Str("")),
     department |-> Coalesce(Get(p, "departmentName"), Null),
     team |-> Coalesce(Get(p, "teamName"), Null),
     location |-> Coalesce(Get(p, "locationName"), Null),
     workplaceType |-> Coalesce(Get(p, "workplaceType"), Null),
     employmentType |-> Coalesce(Get(p, "employmentType"), Null),
     isListed |-> Coalesce(Get(p, "isListed"), Null),
     publishedDate |-> Coalesce(Get(p, "publishedDate"), Null),
     compensationTierSummary |-> Compensation(p),
     jobUrl |-> JobUrl(p)]

\* a variant of Postings that probes jobBoard.jobPostings only
PostingsPrimaryOnly(appData) ==
    Coalesce(OptGet(OptGet(appData, "jobBoard"), "jobPostings"), Arr(<<>>))

\* lines 160-163
Postings(appData) ==
    Coalesce(Coalesce(OptGet(OptGet(appData, "jobBoard"), "jobPostings"),
                      OptGet(OptGet(appData, "jobPostingList"), "jobPostings")),
             Arr(<<>>))

\* lines 164-180: postings.map throws a TypeError when postings has no map
\* method, the callback when a posting is null (p.id)
ListFromAppData(appData) ==
    LET postings == Postings(appData)
    IN  IF postings.t # "array"
        THEN Threw(PlainError("TypeError", "postings.map is not a function"))
        ELSE IF \E i \in 1..Len(postings.a) : Nullish(postings.a[i])
        THEN Threw(PlainError("TypeError", "cannot read properties of null"))
        ELSE LET jobs == [i \in 1..Len(postings.a) |-> JobSummary(postings.a[i])]
             IN  Returned([sourceUrl |-> sourceUrl, count |-> Len(jobs),
                           jobs |-> jobs])

\* a variant of AppDataOrThrow that takes a missing or unparseable payload
\* for an empty object
AppDataOrThrowLenient(capture, notFound) ==
    IF capture.m = "json" THEN Returned(capture.value)
    ELSE Returned(Obj(<<>>))

\* The match of the __appData pattern and JSON.parse of its capture:
\* lines 155-158 and 202-207
AppDataOrThrow(capture, notFound) ==
    IF capture.m = "nomatch" THEN Threw(PlainError("Error", notFound))
    ELSE IF capture.m # "json"
    THEN Threw(PlainError("SyntaxError", "JSON.parse"))
    ELSE Returned(capture.value)

\* The handler from the response on, lines 149-180
ListCoderJobs(r) ==
    IF ~ResOk(r)
    THEN ThrewUnread(FetchError("Failed to fetch listings: ", NoUrl, r))
    ELSE LET parsed == AppDataOrThrow(r.page.appData, "Ashby inline appData not found")
         IN  IF parsed.threw THEN parsed ELSE ListFromAppData(parsed.value)

-----------------------------------------------------------------------------
(* get_coder_job_details *)

IsNonEmptySegment(x) == x # ""

\* lines 209-217: the last non-empty segment of the pathname, else null.
\* The input passed z.string().url() and fetch(url), so new URL(url) does
\* not throw here.
JobId(url) ==
    LET parts == SelectSeq(url.split, IsNonEmptySegment)
    IN  IF parts = <<>> THEN Null ELSE Str(parts[Len(parts)])

\* The two predicates handed to deepFind
JobPredicate(jobId) == [kind |-> "job", jobId |-> jobId]

WrapperPredicate == [kind |-> "wrapper", jobId |-> Null]

\* a variant of Matches whose job predicate does not compare the id
MatchesAnyId(fn, v) ==
    IF fn.kind = "job"
    THEN /\ Truthy(v)
         /\ IsObjectType(v)
         /\ Truthy(Get(v, "id"))
         /\ Get(v, "title").t = "string"
    ELSE /\ Truthy(v)
         /\ IsObjectType(v)
         /\ Truthy(Get(v, "posting"))
         /\ Get(Get(v, "posting"), "title").t = "string"

\* lines 239-244 and 249-253
Matches(fn, v) ==
    IF fn.kind = "job"
    THEN /\ Truthy(v)
         /\ IsObjectType(v)
         /\ Truthy(Get(v, "id"))
         /\ Get(v, "title").t = "string"
         /\ (IF Truthy(fn.jobId) THEN StrictEq(Get(v, "id"), fn.jobId) ELSE TRUE)
    ELSE /\ Truthy(v)
         /\ IsObjectType(v)
         /\ Truthy(Get(v, "posting"))
         /\ Get(Get(v, "posting"), "title").t = "string"

\* The values deepFind descends into, in the order of its for loops
Children(node) ==
    CASE node.t = "array" -> node.a
      [] node.t = "object" -> [i \in 1..Len(node.m) |-> node.m[i].v]
      [] OTHER -> <<>>

\* lines 219-235
RECURSIVE deepFind(_, _)
RECURSIVE deepFindIn(_, _)
\* a variant of deepFind that searches the children of a node before it
\* tests the node
deepFindChildrenFirst(node, fn) ==
    IF Nullish(node) THEN Undef
    ELSE LET r == deepFindIn(Children(node), fn)
         IN  IF r.t # "undefined" THEN r
             ELSE IF Matches(fn, node) THEN node ELSE Undef

deepFind(node, fn) ==
    IF Nullish(node) THEN Undef
    ELSE IF Matches(fn, node) THEN node
    ELSE deepFindIn(Children(node), fn)

\* the for loops of deepFind: the first child whose search finds something
deepFindIn(items, fn) ==
    IF items = <<>> THEN Undef
    ELSE LET r == deepFind(Head(items), fn)
         IN  IF r.t # "undefined" THEN r ELSE deepFindIn(Tail(items), fn)

\* candidate A, lines 237-245
JobPostingOf(appData, url) == deepFind(appData, JobPredicate(JobId(url)))

\* candidate B, lines 247-255
PostingOf(appData) == OptGet(deepFind(appData, WrapperPredicate), "posting")

IsJobPosting(x) == OptGet(x, "@type") = Str("JobPosting")

\* lines 264-268
LdJsonOfParsed(parsed) ==
    IF parsed.t = "array"
    THEN LET hits == SelectSeq(parsed.a, IsJobPosting)
         IN  IF hits = <<>> THEN Undef ELSE Head(hits)
    ELSE IF IsJobPosting(parsed) THEN parsed ELSE Undef

\* a variant of LdJson without the try block
LdJsonNoCatch(capture) ==
    IF capture.m \in {"nomatch", "empty"} THEN Returned(Undef)
    ELSE IF capture.m = "unparseable"
    THEN Threw(PlainError("SyntaxError", "JSON.parse"))
    ELSE Returned(LdJsonOfParsed(capture.value))

\* candidate C, lines 257-270: the try block swallows what JSON.parse throws
LdJson(capture) ==
    IF capture.m = "json"
    THEN Returned(LdJsonOfParsed(capture.value))
    ELSE Returned(Undef)


\* a variant of Base that merges field by field: the posting's value where
\* it is truthy, else the job record's
BaseFieldwise(posting, jobPosting) ==
    LET keys == {"title", "descriptionHtml", "departmentName", "teamName",
                 "locationName", "employmentType", "publishedDate",
                 "compensationTierSummary"}
        pick(k) == IF Truthy(OptGet(posting, k)) THEN OptGet(posting, k)
                   ELSE OptGet(jobPosting, k)
        order == <<"title", "descriptionHtml", "departmentName", "teamName",
                   "locationName", "employmentType", "publishedDate",
                   "compensationTierSummary">>
    IN  ObjOf([i \in 1..Len(order) |-> [k |-> order[i], v |-> pick(order[i])]])

\* line 272: posting ?? jobPosting ?? {}
Base(posting, jobPosting) == Coalesce(Coalesce(posting, jobPosting), Obj(<<>>))

\* a variant of DetailsCompensation that applies the rule of list_coder_jobs
DetailsCompensationRedacted(base) ==
    IF Truthy(Get(base, "shouldDisplayCompensationOnJobBoard"))
    THEN Coalesce(Get(base, "compensationTierSummary"), Null)
    ELSE Null

\* lines 284-285: base.compensationTierSummary ?? null
DetailsCompensation(base) == Coalesce(Get(base, "compensationTierSummary"), Null)

\* lines 274-285
MergeFields(base, ldjson) ==
    [title |-> Or(Or(Get(base, "title"), OptGet(ldjson, "title")), Str("")),
     descriptionHtml |->
        Or(Or(Get(base, "descriptionHtml"), OptGet(ldjson, "description")), Str("")),
     department |-> Coalesce(Get(base, "departmentName"), Null),
     team |-> Coalesce(Get(base, "teamName"), Null),
     location |-> Coalesce(Get(base, "locationName"), Null),
     employmentType |->
        Coalesce(Coalesce(Get(base, "employmentType"),
                          OptGet(ldjson, "employmentType")), Null),
     publishedDate |->
        Coalesce(Coalesce(Get(base, "publishedDate"),
                          OptGet(ldjson, "datePosted")), Null),
     compensationTierSummary |-> DetailsCompensation(base)]

\* What the "apply" anchor pattern (lines 288-290) captured: nothing, or the
\* href of the first matching anchor.  http: the href starts with "http";
\* parses: new URL(href, url) accepts it.
NoAnchor == [m |-> "nomatch", href |-> NoUrl, http |-> FALSE, parses |-> FALSE]

Anchor(href, http, parses) ==
    [m |-> "match", href |-> href, http |-> http, parses |-> parses]

UrlString(u) == [t |-> "urlstring", u |-> u]

\* new URL(href, base).toString() for an href the parser accepts: an href
\* with a scheme stands for itself, one that starts with "/" replaces the
\* path of the base, any other replaces the last segment of the base's path
ResolveUrl(href, base) ==
    IF href.origin # "" THEN href
    ELSE IF href.split # <<>> /\ href.split[1] = ""
    THEN Url(base.origin, href.split)
    ELSE Url(base.origin,
             (IF base.split = <<>> THEN <<"">>
              ELSE SubSeq(base.split, 1, Len(base.split) - 1)) \o href.split)

\* a variant of ApplyUrl without the try block
ApplyUrlNoCatch(anchor, url) ==
    IF anchor.m # "match" THEN Returned(Null)
    ELSE IF anchor.http THEN Returned(UrlString(anchor.href))
    ELSE IF ~anchor.parses THEN Threw(PlainError("TypeError", "Invalid URL"))
    ELSE Returned(UrlString(ResolveUrl(anchor.href, url)))

\* lines 287-298: the try block swallows what new URL throws
ApplyUrl(anchor, url) ==
    IF anchor.m # "match" THEN Returned(Null)
    ELSE IF anchor.http THEN Returned(UrlString(anchor.href))
    ELSE IF ~anchor.parses THEN Returned(Null)
    ELSE Returned(UrlString(ResolveUrl(anchor.href, url)))

\* the object returned in lines 300-312
DetailsRecord(jobId, url, f, applyUrl) ==
    [id |-> jobId,
     url |-> url,
     title |-> f.title,
     department |-> f.department,
     team |-> f.team,
     location |-> f.location,
     employmentType |-> f.employmentType,
     publishedDate |-> f.publishedDate,
     compensationTierSummary |-> f.compensationTierSummary,
     descriptionHtml |-> f.descriptionHtml,
     applyUrl |-> applyUrl]

\* a variant of DetailsFromAppData that prefers the id of the selected
\* record and the url of the ld+json block to those of the input
DetailsFromAppDataPayloadId(appData, page, url) ==
    LET jobId == JobId(url)
        jobPosting == JobPostingOf(appData, url)
        posting == PostingOf(appData)
        ld == LdJson(page.ldjson)
        apply == ApplyUrl(page.applyAnchor, url)
        base == Base(posting, jobPosting)
    IN  IF ld.threw THEN ld
        ELSE IF apply.threw THEN apply
        ELSE Returned(DetailsRecord(Coalesce(Get(base, "id"), jobId),
                                    Coalesce(OptGet(ld.value, "url"), url),
                                    MergeFields(base, ld.value), apply.value))

\* lines 209-312, from the parsed appData on
DetailsFromAppData(appData, page, url) ==
    LET jobId == JobId(url)
        jobPosting == JobPostingOf(appData, url)
        posting == PostingOf(appData)
        ld == LdJson(page.ldjson)
        apply == ApplyUrl(page.applyAnchor, url)
    IN  IF ld.threw THEN ld
        ELSE IF apply.threw THEN apply
        ELSE Returned(DetailsRecord(jobId, url,
                                    MergeFields(Base(posting, jobPosting), ld.value),
                                    apply.value))

\* The handler from the response on, lines 196-312
GetCoderJobDetails(in, r) ==
    IF ~ResOk(r)
    THEN ThrewUnread(FetchError("Failed to fetch job page: ", NoUrl, r))
    ELSE LET parsed == AppDataOrThrow(r.page.appData,
                                      "Ashby inline appData not found on job page")
         IN  IF parsed.threw THEN parsed
             ELSE DetailsFromAppData(parsed.value, r.page, in.url)

\* a variant of FetchAndParseHtml without the res.ok check
FetchAndParseHtmlNoCheck(in, r) == Returned(HtmlResult(in, r))

\* The handler from the response on, lines 59-132
FetchAndParseHtml(in, r) ==
    IF ~ResOk(r)
    THEN ThrewUnread(FetchError("Failed to fetch ", in.url, r))
    ELSE Returned(HtmlResult(in, r))

-----------------------------------------------------------------------------
(* The inputs and pages the model draws from *)

\* all sequences over S of length at most n
SeqsUpTo(S, n) == UNION {[1..k -> S] : k \in 0..n}

StatusText(status) ==
    CASE status = 200 -> "OK"
      [] status = 304 -> "Not Modified"
      [] status = 404 -> "Not Found"
      [] OTHER -> "Internal Server Error"

Statuses == {200, 304, 404, 500}

\* a header of the response: absent, or its value
NoHeader == [present |-> FALSE, value |-> ""]

Header(v) == [present |-> TRUE, value |-> v]

BlankPage ==
    [dom |-> BlankDom, appData |-> NoMatch, ldjson |-> NoMatch,
     applyAnchor |-> NoAnchor]

Response(status, contentType, page) ==
    [kind |-> "response", status |-> status, statusText |-> StatusText(status),
     contentType |-> contentType, page |-> page]

NoRes ==
    [kind |-> "none", status |-> 0, statusText |-> "", contentType |-> NoHeader,
     page |-> BlankPage]

Rejected ==
    [kind |-> "rejected", status |-> 0, statusText |-> "", contentType |-> NoHeader,
     page |-> BlankPage]

\* the responses without a body the handler would read
FailedResponses ==
    {Response(st, Header("text/html"), BlankPage) : st \in Statuses \ {200}}

(* fetch_and_parse_html *)

HtmlInputs ==
    LET u == Url("https://coder.com", <<"", "about">>)
        extracts == {[has |-> FALSE, set |-> {}]}
                    \cup {[has |-> TRUE, set |-> x] : x \in SUBSET AllFields}
        limits == {[has |-> FALSE, n |-> 0]}
                  \cup {[has |-> TRUE, n |-> n] : n \in 1..MaxLimit}
    IN  {[url |-> u, hasExtract |-> e.has, extract |-> e.set,
          hasMax |-> l.has, maxContentChars |-> l.n] :
            e \in extracts, l \in limits}

TitleTexts == {<<>>, <<"a">>, <<" ", "b", "\n">>}

OgTitles ==
    {<<>>, <<NoAttr>>, <<NoAttr, Attr(<<"a">>)>>}
    \cup {<<Attr(t)>> : t \in TitleTexts \cup {<<" ">>}}

TitleDoms ==
    {[BlankDom EXCEPT !.ogTitle = og, !.titleEls = ts] :
        og \in OgTitles, ts \in SeqsUpTo(TitleTexts, MaxTitles)}

RichDoms ==
    {[BlankDom EXCEPT !.metaDesc = md, !.ogDesc = od, !.h1 = h, !.h2 = h] :
        md \in {<<>>, <<Attr(<<"a", " ">>)>>},
        od \in {<<>>, <<Attr(<<"b">>)>>},
        h \in {<<>>, << <<" ">>, <<"a", " ">> >>}}

AnchorKinds ==
    {[href |-> 0, text |-> <<"a">>],
     [href |-> 1, text |-> <<" ", "a">>],
     [href |-> 2, text |-> <<>>]}

\* n anchors with the hrefs 1..n, that of anchor e (if any) the empty string
LongAnchors(n, e) ==
    [i \in 1..n |-> [href |-> IF i = e THEN 0 ELSE i, text |-> <<>>]]

AnchorDoms ==
    {[BlankDom EXCEPT !.anchors = a] : a \in SeqsUpTo(AnchorKinds, MaxAnchors)}
    \cup {[BlankDom EXCEPT !.anchors = LongAnchors(n, e)] :
            n \in (LinksCap - 1)..(LinksCap + MaxOver), e \in {0, 1}}

BodyDoms == {[BlankDom EXCEPT !.bodyText = b] : b \in StringsUpTo(MaxBody)}

HtmlResponses ==
    {Response(200, Header("text/html"), [BlankPage EXCEPT !.dom = d]) :
        d \in TitleDoms \cup RichDoms \cup AnchorDoms \cup BodyDoms}
    \cup {Response(200, NoHeader, BlankPage)}
    \cup FailedResponses

(* list_coder_jobs *)

FlagValues == {Undef, Null, Bool(FALSE), Bool(TRUE), Str(""), Str("yes")}

CompensationValues == {Undef, Null, Str("$100k")}

\* a posting with every field the handler reads, and a URL of its own
FullPosting ==
    Obj(<<[k |-> "id", v |-> Str("j2")],
          [k |-> "title", v |-> Str("P.title")],
          [k |-> "departmentName", v |-> Str("P.department")],
          [k |-> "teamName", v |-> Str("P.team")],
          [k |-> "locationName", v |-> Str("P.location")],
          [k |-> "workplaceType", v |-> Str("Remote")],
          [k |-> "employmentType", v |-> Str("FullTime")],
          [k |-> "isListed", v |-> Bool(TRUE)],
          [k |-> "publishedDate", v |-> Str("2025-08-20")],
          [k |-> "shouldDisplayCompensationOnJobBoard", v |-> Bool(TRUE)],
          [k |-> "compensationTierSummary", v |-> Str("$200k")],
          [k |-> "jobUrl", v |-> Str("https://elsewhere.example/j2")]>>)

PostingValues ==
    {ObjOf(<<[k |-> "id", v |-> Str("j1")],
             [k |-> "shouldDisplayCompensationOnJobBoard", v |-> f],
             [k |-> "compensationTierSummary", v |-> c]>>) :
        f \in FlagValues, c \in CompensationValues}
    \cup {FullPosting, Obj(<<[k |-> "title", v |-> Str("no id")]>>)}

\* appData with the given values at jobBoard.jobPostings (primary) and at
\* jobPostingList.jobPostings (alternate); an undefined value leaves the
\* whole path out
BoardData(primary, alternate) ==
    ObjOf(<<[k |-> "organization", v |-> Obj(<<[k |-> "name", v |-> Str("Coder")]>>)],
            [k |-> "jobBoard",
             v |-> IF primary.t = "undefined" THEN Undef
                   ELSE Obj(<<[k |-> "jobPostings", v |-> primary]>>)],
            [k |-> "jobPostingList",
             v |-> IF alternate.t = "undefined" THEN Undef
                   ELSE Obj(<<[k |-> "jobPostings", v |-> alternate]>>)]>>)

\* Where a list of postings sits in the payload
BoardShapes == {"primary", "alternate", "nullPrimary", "both"}

BoardOf(shape, postings) ==
    CASE shape = "primary" -> BoardData(Arr(postings), Undef)
      [] shape = "alternate" -> BoardData(Undef, Arr(postings))
      [] shape = "nullPrimary" -> BoardData(Null, Arr(postings))
      [] OTHER -> BoardData(Arr(postings), Arr(<<FullPosting>>))

NonCollections == {Obj(<<>>), Str("none"), Num(0)}

\* payloads without a list of postings at either path, or with something
\* else in its place
OddBoards ==
    {BoardData(Undef, Undef), BoardData(Null, Null),
     Obj(<<[k |-> "jobBoard", v |-> Null]>>),
     Obj(<<[k |-> "jobBoard", v |-> Str("closed")]>>),
     BoardData(Arr(<<Null>>), Undef)}
    \cup {BoardData(x, Arr(<<FullPosting>>)) : x \in NonCollections}
    \cup {BoardData(Undef, x) : x \in NonCollections}

PageWithPayload(capture) ==
    Response(200, Header("text/html"), [BlankPage EXCEPT !.appData = capture])

\* the responses to list_coder_jobs other than a board with a list
OtherListResponses ==
    {PageWithPayload(JsonText(d)) : d \in OddBoards}
    \cup {PageWithPayload(c) : c \in {NoMatch, Unparseable}}
    \cup FailedResponses

(* get_coder_job_details *)

DetailsUrls ==
    {Url("https://jobs.ashbyhq.com", <<"", "Coder", "j1">>),
     Url("https://jobs.ashbyhq.com", <<"", "Coder", "j1", "">>),
     Url("https://jobs.ashbyhq.com", <<"", "">>)}

DetailsInputs == {[url |-> u] : u \in DetailsUrls}

\* The value a source carries in a field: each differs from every other
SourceValue ==
    [A |-> [title |-> "A.title", descriptionHtml |-> "A.descriptionHtml",
            departmentName |-> "A.department", teamName |-> "A.team",
            locationName |-> "A.location", employmentType |-> "A.employmentType",
            publishedDate |-> "A.publishedDate",
            compensationTierSummary |-> "A.compensation"],
     B |-> [title |-> "B.title", descriptionHtml |-> "B.descriptionHtml",
            departmentName |-> "B.department", teamName |-> "B.team",
            locationName |-> "B.location", employmentType |-> "B.employmentType",
            publishedDate |-> "B.publishedDate",
            compensationTierSummary |-> "B.compensation"],
     X |-> [title |-> "X.title", descriptionHtml |-> "X.descriptionHtml",
            departmentName |-> "X.department", teamName |-> "X.team",
            locationName |-> "X.location", employmentType |-> "X.employmentType",
            publishedDate |-> "X.publishedDate",
            compensationTierSummary |-> "X.compensation"]]

Profiles == {"full", "sparse", "blank"}

\* A job record of source src with the given id (undefined: no id).
\*   full    every field carries the source's value
\*   sparse  a title and nothing else
\*   blank   title and descriptionHtml are "", the other fields null
JobRecord(src, id, profile) ==
    LET val(f) == CASE profile = "full" -> Str(SourceValue[src][f])
                    [] profile = "sparse" -> Undef
                    [] OTHER -> Null
    IN  ObjOf(<<[k |-> "id", v |-> id],
                [k |-> "title",
                 v |-> IF profile = "blank" THEN Str("")
                       ELSE Str(SourceValue[src].title)],
                [k |-> "descriptionHtml",
                 v |-> IF profile = "blank" THEN Str("") ELSE val("descriptionHtml")],
                [k |-> "departmentName", v |-> val("departmentName")],
                [k |-> "teamName", v |-> val("teamName")],
                [k |-> "locationName", v |-> val("locationName")],
                [k |-> "employmentType", v |-> val("employmentType")],
                [k |-> "publishedDate", v |-> val("publishedDate")],
                [k |-> "compensationTierSummary", v |-> val("compensationTierSummary")],
                [k |-> "shouldDisplayCompensationOnJobBoard",
                 v |-> IF profile = "full" THEN Bool(FALSE) ELSE Undef]>>)

\* the records of jobBoard.jobPostings on a job page: the job of the URL,
\* another job, and a record whose title is not a string
JobRecords ==
    {JobRecord("A", Str("j1"), p) : p \in Profiles}
    \cup {JobRecord("X", Str("j2"), "full"),
          Obj(<<[k |-> "id", v |-> Str("j1")], [k |-> "title", v |-> Num(7)]>>)}

\* the value of the "posting" member of the wrapper; undefined: no wrapper
PostingMembers ==
    {JobRecord("B", Undef, p) : p \in Profiles}
    \cup {Undef, Null, Obj(<<[k |-> "title", v |-> Num(7)]>>),
          JobRecord("B", Str("j1"), "full"),
          Obj(<<[k |-> "title", v |-> Str("B.title")],
                [k |-> "compensationTierSummary", v |-> Str("B.compensation")],
                [k |-> "shouldDisplayCompensationOnJobBoard", v |-> Bool(TRUE)]>>)}

JobPageData(jobs, postingMember) ==
    ObjOf(<<[k |-> "organization", v |-> Obj(<<[k |-> "name", v |-> Str("Coder")]>>)],
            [k |-> "jobBoard", v |-> Obj(<<[k |-> "jobPostings", v |-> Arr(jobs)]>>)],
            [k |-> "jobPostingPage",
             v |-> IF postingMember.t = "undefined" THEN Undef
                   ELSE Obj(<<[k |-> "posting", v |-> postingMember]>>)]>>)

LdFull ==
    Obj(<<[k |-> "@type", v |-> Str("JobPosting")],
          [k |-> "title", v |-> Str("C.title")],
          [k |-> "description", v |-> Str("C.description")],
          [k |-> "employmentType", v |-> Str("C.employmentType")],
          [k |-> "datePosted", v |-> Str("C.datePosted")],
          [k |-> "departmentName", v |-> Str("C.department")],
          [k |-> "identifier", v |-> Str("c9")],
          [k |-> "url", v |-> Str("https://elsewhere.example/jobs/c9")]>>)

LdOrganization ==
    Obj(<<[k |-> "@type", v |-> Str("Organization")],
          [k |-> "title", v |-> Str("Org.title")]>>)

LdCaptures ==
    {NoMatch, EmptyCapture, Unparseable, JsonText(LdFull),
     JsonText(LdOrganization),
     JsonText(Arr(<<Null, LdOrganization, LdFull>>))}

ApplyAnchors ==
    {NoAnchor,
     Anchor(Url("https://jobs.ashbyhq.com", <<"", "Coder", "j1", "application">>),
            TRUE, TRUE),
     Anchor(Url("", <<"application">>), FALSE, TRUE),
     Anchor(Url("", <<"http-careers", "apply">>), TRUE, TRUE),
     Anchor(Url("", <<"", "", "[">>), FALSE, FALSE)}

JobPageResponse(jobs, postingMember, ld, anchor) ==
    Response(200, Header("text/html"),
             [BlankPage EXCEPT !.appData = JsonText(JobPageData(jobs, postingMember)),
                               !.ldjson = ld, !.applyAnchor = anchor])

\* Payloads of other shapes, for the search of deepFind: job records and
\* wrappers at different depths, inside arrays, objects and other job
\* records
JobLeaf(id, title) ==
    Obj(<<[k |-> "id", v |-> Str(id)], [k |-> "title", v |-> Str(title)]>>)

JobWith(child) ==
    Obj(<<[k |-> "id", v |-> Str("j1")], [k |-> "title", v |-> Str("outer")],
          [k |-> "child", v |-> child]>>)

TreeLeaves ==
    {Null, Str("j1"), JobLeaf("j1", "first"), JobLeaf("j2", "other"),
     Obj(<<[k |-> "posting", v |-> JobLeaf("j1", "nested")]>>)}

NestedJobs == TreeLeaves \cup {JobWith(c) : c \in TreeLeaves}

Subtrees ==
    NestedJobs
    \cup {Arr(a) : a \in SeqsUpTo(TreeLeaves, MaxItems)}
    \cup {Obj(<<[k |-> "a", v |-> x], [k |-> "b", v |-> y]>>) :
            x \in TreeLeaves, y \in TreeLeaves}

TreeData(x, y) == Obj(<<[k |-> "a", v |-> x], [k |-> "b", v |-> y]>>)

\* the responses to get_coder_job_details other than a job page with a
\* payload
OtherDetailsResponses ==
    {Response(200, Header("text/html"),
              [BlankPage EXCEPT !.appData = m, !.ldjson = JsonText(LdFull)]) :
        m \in {NoMatch, Unparseable}}
    \cup FailedResponses

-----------------------------------------------------------------------------
(* The invocations *)

NoInput == [url |-> NoUrl]

NoOut == [t |-> "none"]

NoErr == PlainError("", "")

Invocations == 1..MaxInvocations

NoOutcome == [threw |-> FALSE, value |-> NoOut, read |-> FALSE]

\* the locals of a handler that has not been called
IdleInvocation ==
    [tool |-> "none", pc |-> "idle", input |-> NoInput, res |-> NoRes,
     outcome |-> NoOutcome]

Init ==
    /\ tool = "none"
    /\ pc = "idle"
    /\ input = NoInput
    /\ res = NoRes
    /\ bodyRead = FALSE
    /\ fetches = 0
    /\ out = NoOut
    /\ err = NoErr
    /\ running = [i \in Invocations |-> IdleInvocation]
    /\ requests = <<>>

\* The handler up to its await fetch(...): one request goes out
Call(t, in) ==
    /\ tool' = t
    /\ input' = in
    /\ pc' = "awaiting"
    /\ fetches' = fetches + 1
    /\ UNCHANGED <<res, bodyRead, out, err, running, requests>>

\* The invocation of tool t is suspended at its await
Awaiting(t) == pc = "awaiting" /\ tool = t

\* a variant of Resume that issues the request once more when the handler
\* failed for the first time
ResumeRetrying(r, outcome) ==
    IF outcome.threw /\ fetches < 2
    THEN /\ fetches' = fetches + 1
         /\ UNCHANGED <<tool, pc, input, res, bodyRead, out, err, running, requests>>
    ELSE /\ res' = r
         /\ bodyRead' = outcome.read
         /\ pc' = IF outcome.threw THEN "threw" ELSE "returned"
         /\ out' = IF outcome.threw THEN NoOut ELSE outcome.value
         /\ err' = IF outcome.threw THEN outcome.error ELSE NoErr
         /\ UNCHANGED <<tool, input, fetches, running, requests>>

\* The handler from the resolution of the fetch with r to its return or
\* throw
Resume(r, outcome) ==
    /\ res' = r
    /\ bodyRead' = outcome.read
    /\ pc' = IF outcome.threw THEN "threw" ELSE "returned"
    /\ out' = IF outcome.threw THEN NoOut ELSE outcome.value
    /\ err' = IF outcome.threw THEN outcome.error ELSE NoErr
    /\ UNCHANGED <<tool, input, fetches, running, requests>>

CallFetchAndParseHtml ==
    /\ pc = "idle"
    /\ \E in \in HtmlInputs : Call("fetch_and_parse_html", in)

ResumeFetchAndParseHtml ==
    /\ Awaiting("fetch_and_parse_html")
    /\ \E r \in HtmlResponses : Resume(r, FetchAndParseHtml(input, r))

CallListCoderJobs ==
    /\ pc = "idle"
    /\ Call("list_coder_jobs", NoInput)

ResumeListCoderJobs ==
    /\ Awaiting("list_coder_jobs")
    /\ \/ \E shape \in BoardShapes, n \in 0..MaxPostings :
            \E postings \in [1..n -> PostingValues] :
                LET r == PageWithPayload(JsonText(BoardOf(shape, postings)))
                IN  Resume(r, ListCoderJobs(r))
       \/ \E r \in OtherListResponses : Resume(r, ListCoderJobs(r))

CallGetCoderJobDetails ==
    /\ pc = "idle"
    /\ \E in \in DetailsInputs : Call("get_coder_job_details", in)

ResumeGetCoderJobDetails ==
    /\ Awaiting("get_coder_job_details")
    /\ \/ \E n \in 0..MaxJobs, pm \in PostingMembers, ld \in LdCaptures,
              anchor \in ApplyAnchors :
            \E jobs \in [1..n -> JobRecords] :
                LET r == JobPageResponse(jobs, pm, ld, anchor)
                IN  Resume(r, GetCoderJobDetails(input, r))
       \/ \E x \in Subtrees, y \in NestedJobs :
            LET r == PageWithPayload(JsonText(TreeData(x, y)))
            IN  Resume(r, GetCoderJobDetails(input, r))
       \/ \E r \in OtherDetailsResponses :
            Resume(r, GetCoderJobDetails(input, r))

\* The fetch rejects (no response at all): the await throws, the handler
\* has no try around it
FetchRejects ==
    /\ pc = "awaiting"
    /\ res' = Rejected
    /\ pc' = "threw"
    /\ err' = PlainError("TypeError", "fetch failed")
    /\ UNCHANGED <<tool, input, bodyRead, fetches, out, running, requests>>

NextHtml == CallFetchAndParseHtml \/ ResumeFetchAndParseHtml \/ FetchRejects

NextList == CallListCoderJobs \/ ResumeListCoderJobs \/ FetchRejects

NextDetails == CallGetCoderJobDetails \/ ResumeGetCoderJobDetails \/ FetchRejects

Next == NextHtml \/ NextList \/ NextDetails

SpecHtml == Init /\ [][NextHtml]_vars

SpecList == Init /\ [][NextList]_vars

SpecDetails == Init /\ [][NextDetails]_vars

Spec == Init /\ [][Next]_vars

-----------------------------------------------------------------------------
(* The public document reader, readDocument(url?, format?, maxChars?).  Its  *)
(* code is not part of src/; this section follows section 4.5 of the         *)
(* specification.                                                            *)

DefaultTextChars == 100000

DefaultHtmlChars == 200000

\* A document link by its shape: a direct-edit link (it holds a document
\* id), a publish-to-web link (it holds a published id), any other URL
Link(shape, id) == [shape |-> shape, id |-> id]

NoLink == Link("none", "")

\* a variant of ResolveDocumentUrl that takes the empty list entry for a
\* link when nothing is configured
ResolveDocumentUrlUnchecked(in) ==
    IF in.hasUrl THEN in.url
    ELSE IF in.defaultLink # NoLink THEN in.defaultLink
    ELSE IF in.defaultLinks # <<>> THEN Head(in.defaultLinks)
    ELSE Link("other", "")

\* the explicit url, else the single default link, else the first of the
\* list of default links, else none
ResolveDocumentUrl(in) ==
    IF in.hasUrl THEN in.url
    ELSE IF in.defaultLink # NoLink THEN in.defaultLink
    ELSE IF in.defaultLinks # <<>> THEN Head(in.defaultLinks)
    ELSE NoLink

\* format, "text" when omitted
DocFormat(in) == IF in.hasFormat THEN in.format ELSE "text"

AccessMode(link) ==
    CASE link.shape = "edit" -> "direct-export"
      [] link.shape = "published" -> "published-web"
      [] OTHER -> "raw-fetch"

\* the URL that is fetched: the export endpoint of the document with the
\* format, the published embed endpoint, or the link as it is
ResolvedUrl(link, format) ==
    CASE link.shape = "edit" ->
            [endpoint |-> "export", id |-> link.id, format |-> format]
      [] link.shape = "published" ->
            [endpoint |-> "pub-embed", id |-> link.id, format |-> ""]
      [] OTHER -> [endpoint |-> "as-is", id |-> link.id, format |-> ""]

\* maxChars, else 100,000 for text and 200,000 for html
DocLimit(in) ==
    IF in.hasMax THEN in.maxChars
    ELSE IF DocFormat(in) = "text" THEN DefaultTextChars ELSE DefaultHtmlChars

\* the handler from the response on
ReadDocument(in, r) ==
    IF ~ResOk(r)
    THEN ThrewUnread(FetchError("Failed to fetch document: ", NoUrl, r))
    ELSE LET link == ResolveDocumentUrl(in)
             format == DocFormat(in)
             whole == IF link.shape = "edit" \/ format = "html"
                      THEN r.page.raw
                      ELSE Trim(CollapseWs(r.page.dom.bodyText))
             content == Slice0(whole, DocLimit(in))
         IN  Returned([sourceUrl |-> link,
                       resolvedUrl |-> ResolvedUrl(link, format),
                       accessMode |-> AccessMode(link),
                       format |-> format,
                       content |-> content,
                       length |-> Len(content)])

\* a fetched document: its text as it came, and the text of its body
DocPage(body) ==
    [dom |-> [BlankDom EXCEPT !.bodyText = body],
     raw |-> <<"<">> \o body \o <<">">>,
     appData |-> NoMatch, ldjson |-> NoMatch, applyAnchor |-> NoAnchor]

DocLinks == {Link("edit", "d1"), Link("published", "p1"), Link("other", "o1")}

DocInputs ==
    LET urls == {[has |-> FALSE, link |-> NoLink]}
                \cup {[has |-> TRUE, link |-> l] : l \in DocLinks}
        formats == {[has |-> FALSE, f |-> ""]}
                   \cup {[has |-> TRUE, f |-> f] : f \in {"text", "html"}}
        limits == {[has |-> FALSE, n |-> 0]}
                  \cup {[has |-> TRUE, n |-> n] : n \in 1..MaxLimit}
    IN  {[hasUrl |-> u.has, url |-> u.link,
          hasFormat |-> f.has, format |-> f.f,
          hasMax |-> l.has, maxChars |-> l.n,
          defaultLink |-> d, defaultLinks |-> ds] :
            u \in urls, f \in formats, l \in limits,
            d \in {NoLink, Link("other", "o2")},
            ds \in {<<>>, <<Link("edit", "d2"), Link("published", "p2")>>}}

DocResponses ==
    {Response(200, Header("text/html"), DocPage(b)) :
        b \in {<<>>, <<"a">>, <<" ", "a", "\n", "\n", "a">>}}
    \cup FailedResponses

\* readDocument up to its fetch: without a link it fails with MissingUrl
\* and nothing is fetched
CallReadDocument ==
    /\ pc = "idle"
    /\ \E in \in DocInputs :
        IF ResolveDocumentUrl(in) = NoLink
        THEN /\ tool' = "readDocument"
             /\ input' = in
             /\ pc' = "threw"
             /\ err' = PlainError("MissingUrl", "no url and no default link")
             /\ UNCHANGED <<res, bodyRead, fetches, out, running, requests>>
        ELSE Call("readDocument", in)

ResumeReadDocument ==
    /\ Awaiting("readDocument")
    /\ \E r \in DocResponses : Resume(r, ReadDocument(input, r))

NextDoc == CallReadDocument \/ ResumeReadDocument \/ FetchRejects

SpecDoc == Init /\ [][NextDoc]_vars

-----------------------------------------------------------------------------
(* Concurrent invocations.  The locals of a handler (url, res, html and what *)
(* it derives from them) belong to its invocation; the module holds no       *)
(* variable the handlers write.  A handler is suspended twice: at await      *)
(* fetch(...) and, if the response is ok, at await res.text().               *)

Tools == {"fetch_and_parse_html", "list_coder_jobs", "get_coder_job_details"}

\* the handler of tool t, from the response on
Handler(t, in, r) ==
    CASE t = "fetch_and_parse_html" -> FetchAndParseHtml(in, r)
      [] t = "list_coder_jobs" -> ListCoderJobs(r)
      [] OTHER -> GetCoderJobDetails(in, r)

\* the URL handed to fetch: lines 58, 142, 189
RequestUrl(t, in) == IF t = "list_coder_jobs" THEN sourceUrl ELSE in.url

\* a variant of IssueRequest that joins a request for the same URL that is
\* still in flight
IssueRequestDeduplicated(reqs, i, t, in) ==
    IF \E k \in 1..Len(reqs) :
            /\ reqs[k].url = RequestUrl(t, in)
            /\ running[reqs[k].by].pc = "fetching"
    THEN reqs
    ELSE Append(reqs, [by |-> i, tool |-> t, url |-> RequestUrl(t, in)])

\* fetch(url, ...): every call of a handler puts one request on the network
IssueRequest(reqs, i, t, in) ==
    Append(reqs, [by |-> i, tool |-> t, url |-> RequestUrl(t, in)])

\* the inputs and responses of the concurrent invocations
ConcurrentInputs(t) ==
    CASE t = "fetch_and_parse_html" ->
            {in \in HtmlInputs :
                ~in.hasMax /\ (in.hasExtract => in.extract = {"title"})}
      [] t = "list_coder_jobs" -> {NoInput}
      [] OTHER ->
            {[url |-> Url("https://jobs.ashbyhq.com", <<"", "Coder", id>>)] :
                id \in {"j1", "j2"}}

ConcurrentResponses(t) ==
    CASE t = "fetch_and_parse_html" ->
            {Response(200, Header("text/html"),
                      [BlankPage EXCEPT !.dom.titleEls = << <<"a">> >>]),
             Response(404, Header("text/html"), BlankPage)}
      [] t = "list_coder_jobs" ->
            {PageWithPayload(JsonText(BoardOf("primary", <<FullPosting>>))),
             PageWithPayload(NoMatch),
             Response(500, Header("text/html"), BlankPage)}
      [] OTHER ->
            {JobPageResponse(<<JobRecord("A", Str("j1"), "full")>>, Undef,
                             NoMatch, NoAnchor),
             PageWithPayload(Unparseable),
             Response(404, Header("text/html"), BlankPage)}

\* invocation i is called and runs to its await fetch(...)
Invoke(i) ==
    /\ running[i].pc = "idle"
    /\ \E t \in Tools :
        \E in \in ConcurrentInputs(t) :
            /\ running' = [running EXCEPT ![i] =
                    [IdleInvocation EXCEPT !.tool = t, !.pc = "fetching",
                                           !.input = in]]
            /\ requests' = IssueRequest(requests, i, t, in)
    /\ UNCHANGED <<tool, pc, input, res, bodyRead, fetches, out, err>>

\* the fetch of invocation i resolves: the handler throws at the res.ok
\* check or runs to its await res.text()
FetchResolves(i) ==
    /\ running[i].pc = "fetching"
    /\ \E r \in ConcurrentResponses(running[i].tool) :
        LET me == running[i]
        IN  running' = [running EXCEPT ![i] =
                IF ResOk(r)
                THEN [me EXCEPT !.res = r, !.pc = "reading"]
                ELSE [me EXCEPT !.res = r, !.pc = "threw",
                                !.outcome = Handler(me.tool, me.input, r)]]
    /\ UNCHANGED <<tool, pc, input, res, bodyRead, fetches, out, err, requests>>

\* res.text() of invocation i resolves: the handler runs to its end
TextResolves(i) ==
    /\ running[i].pc = "reading"
    /\ LET me == running[i]
           o == Handler(me.tool, me.input, me.res)
       IN  running' = [running EXCEPT ![i] =
                [me EXCEPT !.pc = IF o.threw THEN "threw" ELSE "returned",
                           !.outcome = o]]
    /\ UNCHANGED <<tool, pc, input, res, bodyRead, fetches, out, err, requests>>

\* the fetch of invocation i rejects
FetchRejectsFor(i) ==
    /\ running[i].pc = "fetching"
    /\ running' = [running EXCEPT ![i] =
            [@ EXCEPT !.res = Rejected, !.pc = "threw",
                      !.outcome = ThrewUnread(PlainError("TypeError", "fetch failed"))]]
    /\ UNCHANGED <<tool, pc, input, res, bodyRead, fetches, out, err, requests>>

NextConcurrent ==
    \E i \in Invocations :
        Invoke(i) \/ FetchResolves(i) \/ TextResolves(i) \/ FetchRejectsFor(i)

SpecConcurrent == Init /\ [][NextConcurrent]_vars

-----------------------------------------------------------------------------
(* Properties *)

Finished == pc \in {"returned", "threw"}

GotResponse == Finished /\ res.kind = "response"

HtmlReturned == tool = "fetch_and_parse_html" /\ pc = "returned"

ListReturned == tool = "list_coder_jobs" /\ pc = "returned"

DetailsReturned == tool = "get_coder_job_details" /\ pc = "returned"

\* the parsed payload of the page of the current response
PagePayload == res.page.appData.value

\* the three candidates of the job page of the current response
CandidateA == JobPostingOf(PagePayload, input.url)

CandidateB == PostingOf(PagePayload)

CandidateC == LdJson(res.page.ldjson).value

\* output field -> the key read in candidates A and B, and in candidate C
\* ("" where the handler reads no key of C)
MergedFields ==
    {[out |-> "title", key |-> "title", ckey |-> "title"],
     [out |-> "descriptionHtml", key |-> "descriptionHtml", ckey |-> "description"],
     [out |-> "department", key |-> "departmentName", ckey |-> ""],
     [out |-> "team", key |-> "teamName", ckey |-> ""],
     [out |-> "location", key |-> "locationName", ckey |-> ""],
     [out |-> "employmentType", key |-> "employmentType", ckey |-> "employmentType"],
     [out |-> "publishedDate", key |-> "publishedDate", ckey |-> "datePosted"],
     [out |-> "compensationTierSummary", key |-> "compensationTierSummary",
      ckey |-> ""]}

\* C1, as claimed: every merged field follows B > A > C field by field: B's
\* value when B has a non-empty one, else A's when A has a non-empty one,
\* else C's.
C1_FieldwisePrecedence ==
    DetailsReturned =>
        \A f \in MergedFields :
            LET b == OptGet(CandidateB, f.key)
                a == OptGet(CandidateA, f.key)
                c == IF f.ckey = "" THEN Undef ELSE OptGet(CandidateC, f.ckey)
            IN  IF Truthy(b) THEN out[f.out] = b
                ELSE IF Truthy(a) THEN out[f.out] = a
                ELSE IF Truthy(c) THEN out[f.out] = c
                ELSE TRUE

\* C1, amended: the fields of A and B are read from one record chosen as a
\* whole, B when B was found, else A when A was found, else an empty record.
\* title and descriptionHtml are that record's value when it is truthy, else
\* C's when truthy, else ""; employmentType and publishedDate are the
\* record's value when it is not null or undefined, else C's, else null;
\* department, team, location and compensationTierSummary are the record's
\* value or null, and never C's.
C1_RecordPrecedence ==
    DetailsReturned =>
        LET chosen == IF ~Nullish(CandidateB) THEN CandidateB ELSE CandidateA
        IN  \A f \in MergedFields :
                LET v == OptGet(chosen, f.key)
                    c == IF f.ckey = "" THEN Undef ELSE OptGet(CandidateC, f.ckey)
                IN  IF f.out \in {"title", "descriptionHtml"}
                    THEN out[f.out] = (IF Truthy(v) THEN v
                                       ELSE IF Truthy(c) THEN c ELSE Str(""))
                    ELSE out[f.out] = (IF ~Nullish(v) THEN v
                                       ELSE IF ~Nullish(c) THEN c ELSE Null)

\* C1 witness: B was found and has no departmentName, A carries one, and the
\* returned department is null
C1_Witness ==
    /\ DetailsReturned
    /\ ~Nullish(CandidateB)
    /\ Nullish(Get(CandidateB, "departmentName"))
    /\ Get(CandidateA, "departmentName") = Str("A.department")
    /\ out.department = Null
    /\ out.title = Str("B.title")

\* the postings of the payload that the handler maps over
PayloadPostings == Postings(PagePayload).a

FlagOf(p) == Get(p, "shouldDisplayCompensationOnJobBoard")

\* C2: list_coder_jobs returns one job per posting, and a job's
\* compensationTierSummary is null whenever the posting's
\* shouldDisplayCompensationOnJobBoard is false or absent, whatever the
\* posting's compensationTierSummary; it is not null only when the flag is
\* truthy, and is then the posting's value.
C2_CompensationRedacted ==
    ListReturned =>
        /\ Len(out.jobs) = Len(PayloadPostings)
        /\ \A i \in 1..Len(out.jobs) :
            LET p == PayloadPostings[i]
                shown == out.jobs[i].compensationTierSummary
            IN  /\ FlagOf(p) \in {Undef, Bool(FALSE)} => shown = Null
                /\ shown # Null =>
                    /\ Truthy(FlagOf(p))
                    /\ shown = Get(p, "compensationTierSummary")

\* C2 witness: a posting carries a compensation value and the flag false,
\* and its job is returned with null; another posting's value is returned
C2_Witness ==
    /\ ListReturned
    /\ \E i \in 1..Len(out.jobs) :
        /\ FlagOf(PayloadPostings[i]) = Bool(FALSE)
        /\ Get(PayloadPostings[i], "compensationTierSummary") = Str("$100k")
        /\ out.jobs[i].compensationTierSummary = Null
    /\ \E i \in 1..Len(out.jobs) :
        out.jobs[i].compensationTierSummary = Str("$200k")

\* C3: in each of the three tools, a response whose status is outside
\* 200..299 ends the invocation in an error that carries the status and the
\* status text; the body is not read and nothing is returned.
C3_FailedFetchThrows ==
    (GotResponse /\ ~(res.status >= 200 /\ res.status <= 299)) =>
        /\ pc = "threw"
        /\ err.name = "Error"
        /\ err.hasStatus
        /\ err.status = res.status
        /\ err.statusText = res.statusText
        /\ ~bodyRead
        /\ out = NoOut

\* C3 witness: get_coder_job_details got a 404 and threw
C3_Witness ==
    /\ tool = "get_coder_job_details"
    /\ GotResponse
    /\ res.status = 404
    /\ pc = "threw"
    /\ err.statusText = "Not Found"

\* C4: the object fetch_and_parse_html returns has exactly the keys url,
\* status, contentType and the requested fields (all five when extract is
\* omitted), whatever the page holds.
C4_ExactlyRequestedKeys ==
    HtmlReturned =>
        DOMAIN out = {"url", "status", "contentType"}
                     \cup (IF input.hasExtract THEN input.extract ELSE AllFields)

\* C4 witness: title and links were requested of a page with no title, no
\* meta and no anchor; both are keys of the result, text is not
C4_Witness ==
    /\ HtmlReturned
    /\ input.hasExtract
    /\ input.extract = {"title", "links"}
    /\ res.page.dom = BlankDom
    /\ {"title", "links"} \subseteq DOMAIN out
    /\ "text" \notin DOMAIN out

NotFoundText ==
    IF tool = "list_coder_jobs" THEN "Ashby inline appData not found"
    ELSE "Ashby inline appData not found on job page"

\* C5: in list_coder_jobs and get_coder_job_details, a page fetched with
\* success that has no __appData assignment ends the invocation in the
\* not-found error, one whose captured payload JSON.parse rejects ends it in
\* the parse error; in both cases nothing is returned.
C5_PayloadFailuresThrow ==
    (/\ tool \in {"list_coder_jobs", "get_coder_job_details"}
     /\ GotResponse
     /\ ResOk(res)) =>
        /\ res.page.appData.m = "nomatch" =>
            /\ pc = "threw"
            /\ err.name = "Error"
            /\ err.text = NotFoundText
            /\ out = NoOut
        /\ res.page.appData.m = "unparseable" =>
            /\ pc = "threw"
            /\ err.name = "SyntaxError"
            /\ out = NoOut

\* C5 witness: the job page came with status 200 and a payload that does not
\* parse, next to an ld+json block that does; the invocation threw
C5_Witness ==
    /\ tool = "get_coder_job_details"
    /\ GotResponse
    /\ ResOk(res)
    /\ res.page.appData.m = "unparseable"
    /\ res.page.ldjson.m = "json"
    /\ pc = "threw"

DetailKeys ==
    {"id", "url", "title", "department", "team", "location", "employmentType",
     "publishedDate", "compensationTierSummary", "descriptionHtml", "applyUrl"}

\* C6: once the job page was fetched with success and its payload parsed,
\* get_coder_job_details returns a record of the eleven fields and throws
\* nothing, for every combination of the candidates and the apply anchor;
\* with no candidate and no anchor the fields they would supply are null or
\* "".
C6_DetailsAlwaysReturn ==
    (/\ tool = "get_coder_job_details"
     /\ GotResponse
     /\ ResOk(res)
     /\ res.page.appData.m = "json") =>
        /\ pc = "returned"
        /\ err = NoErr
        /\ DOMAIN out = DetailKeys
        /\ (/\ Nullish(CandidateA)
            /\ Nullish(CandidateB)
            /\ Nullish(CandidateC)) =>
                \A k \in DetailKeys \ {"id", "url", "applyUrl"} :
                    out[k] \in {Null, Str("")}
        /\ res.page.applyAnchor.m = "nomatch" => out.applyUrl = Null

\* C6 witness: the ld+json block does not parse, the apply href does not
\* resolve, neither A nor B exists, and a record is returned
C6_Witness ==
    /\ DetailsReturned
    /\ res.page.ldjson.m = "unparseable"
    /\ res.page.applyAnchor.m = "match"
    /\ ~res.page.applyAnchor.parses
    /\ Nullish(CandidateA)
    /\ Nullish(CandidateB)
    /\ out.title = Str("")
    /\ out.applyUrl = Null

PrimaryPath == OptGet(OptGet(PagePayload, "jobBoard"), "jobPostings")

AlternatePath == OptGet(OptGet(PagePayload, "jobPostingList"), "jobPostings")

IsPosting(p) == p.t = "object"

\* C7: when jobBoard.jobPostings is absent and jobPostingList.jobPostings
\* holds n postings, list_coder_jobs returns count = n and the n jobs in the
\* order of the payload, each with jobUrl = `{sourceUrl}/{id}` of the fixed
\* sourceUrl and the posting's id.
C7_AlternatePathListed ==
    (/\ tool = "list_coder_jobs"
     /\ GotResponse
     /\ ResOk(res)
     /\ res.page.appData.m = "json"
     /\ PrimaryPath = Undef
     /\ AlternatePath.t = "array"
     /\ \A i \in 1..Len(AlternatePath.a) : IsPosting(AlternatePath.a[i])) =>
        /\ pc = "returned"
        /\ out.sourceUrl = Url("https://jobs.ashbyhq.com", <<"", "Coder">>)
        /\ out.count = Len(AlternatePath.a)
        /\ Len(out.jobs) = Len(AlternatePath.a)
        /\ \A i \in 1..Len(out.jobs) :
            LET p == AlternatePath.a[i]
            IN  /\ out.jobs[i].id = Get(p, "id")
                /\ out.jobs[i].title = Coalesce(Get(p, "title"), Str(""))
                /\ out.jobs[i].jobUrl =
                     <<out.sourceUrl, "/", TemplateStr(Get(p, "id"))>>

\* C7 witness: the alternate path alone holds two postings, j2 (which
\* carries a jobUrl of its own) before j1, and they are returned in that
\* order with the synthesized URLs
C7_Witness ==
    /\ ListReturned
    /\ PrimaryPath = Undef
    /\ AlternatePath.t = "array"
    /\ Len(AlternatePath.a) = 2
    /\ Get(AlternatePath.a[1], "jobUrl") = Str("https://elsewhere.example/j2")
    /\ out.count = 2
    /\ out.jobs[1].jobUrl = <<sourceUrl, "/", "j2">>
    /\ out.jobs[2].jobUrl = <<sourceUrl, "/", "j1">>

\* the anchors of the page of the current response
PageAnchors == res.page.dom.anchors

WithHref == {i \in 1..Len(PageAnchors) : PageAnchors[i].href # 0}

\* C8: links holds the anchors with a non-empty href, in document order,
\* cut to the first 500: min(N, 500) entries for N such anchors, a prefix of
\* their sequence; an anchor with an empty href does not count toward the
\* 500.
C8_LinksCappedInOrder ==
    (HtmlReturned /\ "links" \in DOMAIN out) =>
        LET kept == SelectSeq(PageAnchors, HasHref)
            n == Min(Cardinality(WithHref), 500)
        IN  /\ Len(out.links) = n
            /\ \A j \in 1..n :
                /\ out.links[j].href = kept[j].href
                /\ out.links[j].text = Trim(kept[j].text)

\* C8 witness: 502 anchors, the first with an empty href: of the 501
\* others the first 500 are returned, in order, and the last is cut
C8_Witness ==
    /\ HtmlReturned
    /\ "links" \in DOMAIN out
    /\ Len(PageAnchors) = 502
    /\ PageAnchors[1].href = 0
    /\ Cardinality(WithHref) = 501
    /\ Len(out.links) = 500
    /\ out.links[1].href = 2
    /\ out.links[500].href = 501

EffectiveLimit == IF input.hasMax THEN input.maxContentChars ELSE 10000

\* the body text with every run of whitespace collapsed, trimmed
CleanBody == Trim(CollapseWs(res.page.dom.bodyText))

\* C9: text is never longer than the effective limit (maxContentChars, or
\* 10,000 when omitted); it is the whitespace-collapsed, trimmed body text
\* when that fits and its first `limit` characters otherwise; cutting it
\* again to the limit changes nothing.
C9_TextTruncated ==
    (HtmlReturned /\ "text" \in DOMAIN out) =>
        /\ Len(out.text) <= EffectiveLimit
        /\ Len(CleanBody) <= EffectiveLimit => out.text = CleanBody
        /\ Len(CleanBody) > EffectiveLimit =>
            /\ Len(out.text) = EffectiveLimit
            /\ \A i \in 1..EffectiveLimit : out.text[i] = CleanBody[i]
        /\ Slice0(out.text, EffectiveLimit) = out.text
        /\ \A i \in 1..Len(out.text) :
            /\ out.text[i] # "\n"
            /\ (i = 1 => out.text[i] # " ")
            /\ (i > 1 /\ out.text[i] = " ") => out.text[i - 1] # " "

\* C9 witness: the collapsed body "a a" is longer than the limit 2 and is
\* cut to "a "
C9_Witness ==
    /\ HtmlReturned
    /\ "text" \in DOMAIN out
    /\ input.hasMax
    /\ input.maxContentChars = 2
    /\ res.page.dom.bodyText = <<"a", "\n", " ", "a">>
    /\ out.text = <<"a", " ">>

\* C10: a requested title is always a string: the content of the og:title
\* meta when it is non-empty, else the text of the first <title> when
\* non-empty, else ""; it is trimmed; with neither an og:title meta nor a
\* <title> it is "".
C10_TitleFallback ==
    (HtmlReturned /\ "title" \in DOMAIN out) =>
        LET dom == res.page.dom
            og == IF dom.ogTitle = <<>> THEN NoAttr ELSE dom.ogTitle[1]
            first == IF dom.titleEls = <<>> THEN <<>> ELSE dom.titleEls[1]
        IN  /\ out.title \in Seq({"a", "b", " ", "\n"})
            /\ out.title = Trim(IF og.def /\ og.c # <<>> THEN og.c ELSE first)
            /\ Trim(out.title) = out.title
            /\ (out.title # <<>> =>
                    ~IsSpace(out.title[1]) /\ ~IsSpace(out.title[Len(out.title)]))
            /\ (dom.ogTitle = <<>> /\ dom.titleEls = <<>>) => out.title = <<>>

\* C10 witness: og:title is "a" and the first <title> is " b\n": the title
\* is "a"
C10_Witness ==
    /\ HtmlReturned
    /\ "title" \in DOMAIN out
    /\ res.page.dom.ogTitle = <<Attr(<<"a">>)>>
    /\ res.page.dom.titleEls # <<>>
    /\ res.page.dom.titleEls[1] = <<" ", "b", "\n">>
    /\ out.title = <<"a">>

\* the response of the current invocation is one the handler cannot use: the
\* fetch rejected, the status is outside 200..299, or (for the two job
\* tools) the page has no payload or one that does not parse
FailedRun ==
    \/ res.kind = "rejected"
    \/ /\ res.kind = "response"
       /\ \/ ~(res.status >= 200 /\ res.status <= 299)
          \/ /\ tool \in {"list_coder_jobs", "get_coder_job_details"}
             /\ res.page.appData.m \in {"nomatch", "unparseable"}

\* C11: an invocation issues exactly one HTTP request over its whole run:
\* none before it is called, one from the call on, and still one after a
\* failed fetch, a missing payload or a parse failure (no retry); the step
\* that meets the failure ends the invocation in its error outcome.
C11_OneRequestPerInvocation ==
    /\ pc = "idle" => fetches = 0
    /\ pc # "idle" => fetches = 1
    /\ res.kind # "none" => Finished
    /\ (Finished /\ FailedRun) => (pc = "threw" /\ out = NoOut /\ fetches = 1)

\* C11 witness: list_coder_jobs got a page without the payload: it threw and
\* has issued one request
C11_Witness ==
    /\ tool = "list_coder_jobs"
    /\ GotResponse
    /\ res.status = 200
    /\ res.page.appData.m = "nomatch"
    /\ pc = "threw"
    /\ fetches = 1

\* the requests invocation i has put on the network
RequestsOf(i) == SelectSeq(requests, LAMBDA q : q.by = i)

Called == {i \in Invocations : running[i].pc # "idle"}

\* C12: whatever the interleaving of the concurrent invocations, an
\* invocation that has finished with a response holds the outcome its
\* handler has for its own input and its own response, and it keeps it
\* while the others run; every invocation that was called has put exactly
\* one request on the network, for its own URL, also when another
\* invocation asks for the same URL at the same time.
C12_InvocationsIndependent ==
    /\ \A i \in Invocations :
        LET me == running[i]
        IN  /\ (me.pc \in {"returned", "threw"} /\ me.res.kind = "response") =>
                    me.outcome = Handler(me.tool, me.input, me.res)
            /\ me.pc \in {"idle", "fetching", "reading"} => me.outcome = NoOutcome
            /\ Len(RequestsOf(i)) = (IF i \in Called THEN 1 ELSE 0)
            /\ \A k \in 1..Len(RequestsOf(i)) :
                    RequestsOf(i)[k].url = RequestUrl(me.tool, me.input)
    /\ Len(requests) = Cardinality(Called)

\* C12 witness: two invocations of get_coder_job_details for the same URL
\* got different responses; one returned, the other threw, and two requests
\* for that URL went out
C12_Witness ==
    \E i, j \in Invocations :
        /\ i # j
        /\ running[i].tool = "get_coder_job_details"
        /\ running[j].tool = "get_coder_job_details"
        /\ running[i].input = running[j].input
        /\ running[i].pc = "returned"
        /\ running[i].outcome.value.title = Str("A.title")
        /\ running[j].pc = "threw"
        /\ running[j].res.status = 404
        /\ Len(requests) = 2
        /\ requests[1].url = requests[2].url

\* nothing names a document: no url argument, no single default link, no
\* list of default links
NoLinkAvailable ==
    /\ ~input.hasUrl
    /\ input.defaultLink = NoLink
    /\ input.defaultLinks = <<>>

\* C13: readDocument called without a url and with no default link
\* configured (neither the single one nor the list) fails with MissingUrl,
\* and at no point of that invocation has a request been issued or a
\* response been received.
C13_MissingUrlBeforeFetch ==
    (tool = "readDocument" /\ NoLinkAvailable) =>
        /\ pc = "threw"
        /\ err.name = "MissingUrl"
        /\ out = NoOut
        /\ fetches = 0
        /\ res = NoRes

\* C13 witness: readDocument was called for html with nothing to read and
\* has failed with MissingUrl without a request
C13_Witness ==
    /\ tool = "readDocument"
    /\ NoLinkAvailable
    /\ input.hasFormat
    /\ input.format = "html"
    /\ pc = "threw"
    /\ err.name = "MissingUrl"
    /\ fetches = 0

\* the first of the two paths that holds a collection, empty when neither
\* does
FirstCollection ==
    IF PrimaryPath.t = "array" THEN PrimaryPath
    ELSE IF AlternatePath.t = "array" THEN AlternatePath
    ELSE Arr(<<>>)

\* C14, as claimed: list_coder_jobs lists the postings of the first of
\* jobBoard.jobPostings and jobPostingList.jobPostings that holds a
\* collection; when neither does (the path is absent, null, or holds a value
\* that is not a collection) it returns count = 0 and jobs = [] and no
\* error.
C14_FirstCollectionElseEmpty ==
    (/\ tool = "list_coder_jobs"
     /\ GotResponse
     /\ ResOk(res)
     /\ res.page.appData.m = "json"
     /\ \A i \in 1..Len(FirstCollection.a) : IsPosting(FirstCollection.a[i])) =>
        /\ pc = "returned"
        /\ err = NoErr
        /\ out.count = Len(FirstCollection.a)
        /\ Len(out.jobs) = Len(FirstCollection.a)
        /\ \A i \in 1..Len(out.jobs) :
                out.jobs[i].id = Get(FirstCollection.a[i], "id")

\* the captured href of the apply anchor is an absolute URL (it has a
\* scheme and a host), not a path
IsAbsolute(u) == u.origin # ""

\* C15, as claimed: applyUrl is null or an absolute URL: with no apply
\* anchor it is null; the anchor's absolute href is returned as it is; a
\* relative href is resolved against the URL of the job page into an
\* absolute URL; an href that does not resolve leaves applyUrl null, and
\* the invocation still returns.
C15_ApplyUrlAbsolute ==
    (/\ tool = "get_coder_job_details"
     /\ GotResponse
     /\ ResOk(res)
     /\ res.page.appData.m = "json") =>
        LET a == res.page.applyAnchor
        IN  /\ pc = "returned"
            /\ a.m = "nomatch" => out.applyUrl = Null
            /\ (a.m = "match" /\ IsAbsolute(a.href)) =>
                    out.applyUrl = UrlString(a.href)
            /\ (a.m = "match" /\ ~IsAbsolute(a.href) /\ a.parses) =>
                    /\ out.applyUrl # Null
                    /\ out.applyUrl.u.origin = input.url.origin
            /\ (a.m = "match" /\ ~IsAbsolute(a.href) /\ ~a.parses) =>
                    out.applyUrl = Null
            /\ out.applyUrl # Null => IsAbsolute(out.applyUrl.u)

\* the job page came with success and its payload parsed
PayloadParsed ==
    /\ tool = "get_coder_job_details"
    /\ GotResponse
    /\ res.status >= 200 /\ res.status <= 299
    /\ res.page.appData.m = "json"

\* the last non-empty segment of the path of the input URL, null without
\* one
LastSegment ==
    LET split == input.url.split
        filled == {i \in 1..Len(split) : split[i] # ""}
    IN  IF filled = {} THEN Null
        ELSE Str(split[CHOOSE i \in filled : \A j \in filled : j <= i])

\* the nodes of a parsed JSON value, in depth-first pre-order: a node, then
\* the nodes of its array items by index or of its members in key order
RECURSIVE PreOrder(_)
RECURSIVE PreOrderAll(_)
PreOrder(v) ==
    <<v>> \o (CASE v.t = "array" -> PreOrderAll(v.a)
                [] v.t = "object" -> PreOrderAll([i \in 1..Len(v.m) |-> v.m[i].v])
                [] OTHER -> <<>>)

PreOrderAll(vs) ==
    IF vs = <<>> THEN <<>> ELSE PreOrder(Head(vs)) \o PreOrderAll(Tail(vs))

\* the id member of a node, undefined for a node that is not an object
IdOf(node) ==
    IF node.t = "object" /\ \E i \in 1..Len(node.m) : node.m[i].k = "id"
    THEN node.m[CHOOSE i \in 1..Len(node.m) : node.m[i].k = "id"].v
    ELSE Undef

PayloadNodes == PreOrder(PagePayload)

\* C16: the returned id is the last non-empty segment of the path of the
\* input URL, null when the path has none.  When there is one, candidate A
\* is a node of the payload whose id equals it, or is absent: a node with a
\* string title and another id is never candidate A (so, without candidate
\* B, the returned department is never that of a node with another id), and
\* candidate A is absent when no node has that id.
C16_CandidateMatchesJobId ==
    PayloadParsed =>
        LET nodes == PayloadNodes
            a == CandidateA
        IN  /\ pc = "returned"
            /\ out.id = LastSegment
            /\ LastSegment # Null =>
                /\ a # Undef =>
                    /\ IdOf(a) = LastSegment
                    /\ \E k \in 1..Len(nodes) : nodes[k] = a
                /\ (\A k \in 1..Len(nodes) : IdOf(nodes[k]) # LastSegment)
                        => a = Undef
                /\ (Nullish(CandidateB) /\ out.department # Null) =>
                        \E k \in 1..Len(nodes) :
                            /\ IdOf(nodes[k]) = LastSegment
                            /\ Get(nodes[k], "departmentName") = out.department

\* C16 witness: the URL ends in j1, the payload lists job j2 (with a string
\* title) before job j1, there is no candidate B, and the department of j1
\* is returned
C16_Witness ==
    /\ PayloadParsed
    /\ input.url.split = <<"", "Coder", "j1", "">>
    /\ Len(PrimaryPath.a) = 2
    /\ Get(PrimaryPath.a[1], "id") = Str("j2")
    /\ Get(PrimaryPath.a[1], "title") = Str("X.title")
    /\ Get(PrimaryPath.a[2], "id") = Str("j1")
    /\ Nullish(CandidateB)
    /\ out.id = Str("j1")
    /\ out.department = Str("A.department")

\* the first node of the payload, in depth-first pre-order, that satisfies
\* the predicate fn; undefined when none does
FirstInPreOrder(fn) ==
    LET nodes == PayloadNodes
        hits == {k \in 1..Len(nodes) : Matches(fn, nodes[k])}
    IN  IF hits = {} THEN Undef
        ELSE nodes[CHOOSE k \in hits : \A j \in hits : k <= j]

\* C17: on every payload deepFind ends, and with each of the handler's two
\* predicates it returns the first node in depth-first pre-order (a node
\* before its children, array items by index, members in key order) that
\* satisfies the predicate, undefined when no node does; the handler reads
\* its candidates A and B from these nodes.
C17_DeepFindFirstInPreOrder ==
    PayloadParsed =>
        LET first == FirstInPreOrder(JobPredicate(LastSegment))
            wrapper == FirstInPreOrder(WrapperPredicate)
        IN  /\ deepFind(PagePayload, JobPredicate(LastSegment)) = first
            /\ deepFind(PagePayload, WrapperPredicate) = wrapper
            /\ pc = "returned"
            /\ (wrapper = Undef /\ first # Undef) =>
                    out.department = Coalesce(Get(first, "departmentName"), Null)
            /\ wrapper # Undef =>
                    out.department =
                        Coalesce(Get(Get(wrapper, "posting"), "departmentName"), Null)
            /\ (wrapper = Undef /\ first # Undef /\ res.page.ldjson.m = "nomatch") =>
                    out.title = Get(first, "title")

\* C17 witness: member a holds an array with null and a job record of
\* another id, member b a job record of the id that holds a second one: the
\* search passes the array and returns the outer record of member b, found
\* before its child
C17_Witness ==
    /\ PayloadParsed
    /\ LastSegment = Str("j1")
    /\ PagePayload =
            TreeData(Arr(<<Null, JobLeaf("j2", "other")>>),
                     JobWith(JobLeaf("j1", "first")))
    /\ pc = "returned"
    /\ out.title = Str("outer")

\* C18: the id that get_coder_job_details returns is the identifier derived
\* from the input URL and the url it returns is the input URL, unchanged,
\* whatever ids and URLs the payload, the nested posting and the ld+json
\* block carry.
C18_IdAndUrlFromInput ==
    DetailsReturned =>
        /\ out.id = LastSegment
        /\ out.url = input.url

\* C18 witness: the input URL has no path segment; the selected record
\* carries the id j2 and the ld+json block an identifier and a url of its
\* own; the returned id is null and the returned url the input URL
C18_Witness ==
    /\ DetailsReturned
    /\ input.url.split = <<"", "">>
    /\ Nullish(CandidateB)
    /\ Get(CandidateA, "id") = Str("j2")
    /\ OptGet(CandidateC, "url") = Str("https://elsewhere.example/jobs/c9")
    /\ out.title = Str("X.title")
    /\ out.id = Null
    /\ out.url = input.url

\* the record get_coder_job_details reads its fields from: candidate B when
\* found, else candidate A, else an empty object
SelectedRecord ==
    IF ~Nullish(CandidateB) THEN CandidateB
    ELSE IF ~Nullish(CandidateA) THEN CandidateA
    ELSE Obj(<<>>)

\* C19: the compensationTierSummary that get_coder_job_details returns is
\* that of the selected record, null only when the record has none (absent
\* or null), whether the record's shouldDisplayCompensationOnJobBoard is
\* true, false or absent: the redaction of list_coder_jobs is not applied.
C19_DetailsCompensationUnredacted ==
    DetailsReturned =>
        LET value == Get(SelectedRecord, "compensationTierSummary")
        IN  /\ ~Nullish(value) => out.compensationTierSummary = value
            /\ Nullish(value) => out.compensationTierSummary = Null

\* C19 witness: the selected record has the flag false and a compensation
\* value; list_coder_jobs would return null for it, get_coder_job_details
\* has returned the value
C19_Witness ==
    /\ DetailsReturned
    /\ FlagOf(SelectedRecord) = Bool(FALSE)
    /\ Get(SelectedRecord, "compensationTierSummary") = Str("A.compensation")
    /\ Compensation(SelectedRecord) = Null
    /\ out.compensationTierSummary = Str("A.compensation")

=============================================================================
